---- MODULE Spec2Model ----
(***************************************************************************)
(* Model of the task-execution controller of stag_gui.py: the Tk main      *)
(* thread (run_tagger, cancel_tagger, the after(0) callback running        *)
(* update_ui_state) and the worker threads running run_tagger_thread,      *)
(* which write to the Text widget through TextRedirector.                  *)
(***************************************************************************)
EXTENDS Naturals, Sequences, FiniteSets

\* Bounds of the model.
MaxJobs == 2
MaxCancels == 2
MaxItems == 1
MaxOutput == 10
MaxPrefixLen == 2

Jobs == 1..MaxJobs

\* The strings the program prints.
StartingText == "Starting tagger..."
FirstRunText1 == "First run - now downloading the model file."
FirstRunText2 == "This process can take a little while and is only executed once."
DoneText == "The mighty STAG has done its work. Have a nice day."
ErrorText == "Error during tagging: e"
CancelText == "Cancelling tagger..."
ItemText == "item"
Newline == "\n"

\* DEFAULT_PREFIX = "st"; a string of the prefix entry is a sequence of characters.
DEFAULT_PREFIX == <<"s", "t">>

\* The characters typed into the prefix entry: a blank and a letter.
Chars == {" ", "x"}

\* The texts the prefix entry can hold: what the user typed, or the default.
PrefixInputs ==
    UNION {[1..n -> Chars] : n \in 0..MaxPrefixLen} \cup {DEFAULT_PREFIX}

VARIABLES
    stop_event,      \* self.stop_event: the flag of the threading.Event
    start_widgets,   \* state of entry_imagedir .. prefer_exact_filenames_checkbox (run_button among them)
    cancel_button,   \* state of cancel_button
    sys_stdout,      \* what sys.stdout is bound to: "console" or the tag of a TextRedirector
    sys_stderr,      \* what sys.stderr is bound to
    text_output,     \* content of the Text widget: the inserted fragments, in widget order
    model_cached,    \* os.path.isdir(dl_dir)
    after_queue,     \* callbacks scheduled with root.after(0, ...) and not yet run
    mainpc,          \* position of the main thread: "loop" or inside cancel_tagger
    main_file,       \* the file object print() of cancel_tagger resolved sys.stdout to
    njobs,           \* number of threads started so far
    pc,              \* position of each worker thread in run_tagger_thread
    wpos,            \* number of write() calls the worker's current print() has completed
    items,           \* units of work left in the directory of the worker's enter_dir
    raised,          \* the worker leaves its finally block with an exception in flight
    signals,         \* history: number of root.after(0, ...) calls each worker made
    idles,           \* history: number of update_ui_state(running=False) runs per job
    nemit,           \* history: number of write() calls each worker completed
    cancelled_pre,   \* history: a cancel_tagger completed after the job's start and before its pre-flight check
    entered,         \* history: the worker invoked tagger.enter_dir
    caught,          \* history: the worker's except block was entered
    ncancels,        \* history: number of cancel_tagger calls
    nui,             \* history: number of write() calls of the main thread
    cancel_ignored,  \* history: the latest event of the main loop was a click on the disabled cancel button
    cancel_since_start, \* history: a cancel_tagger completed after the latest run_tagger
    entry_prefix,    \* the text of self.entry_prefix
    prefix_arg       \* the prefix in the args of the thread started last (<<>> before the first)

cfgVars == <<entry_prefix, prefix_arg>>
vars == <<stop_event, start_widgets, cancel_button, sys_stdout, sys_stderr,
          text_output, model_cached, after_queue, mainpc, main_file, njobs,
          pc, wpos, items, raised, signals, idles, nemit, cancelled_pre,
          entered, caught, ncancels, nui, cancel_ignored, cancel_since_start, cfgVars>>

mainVars == <<mainpc, main_file, cancel_ignored>>
ctlVars == <<start_widgets, cancel_button>>
streamVars == <<sys_stdout, sys_stderr>>
workerHist == <<signals, nemit, entered, caught>>

----------------------------------------------------------------------------
\* A faulty variant of write: the fragment is inserted at index 1.0, the start
\* of the widget, instead of tk.END.
write_at_start(widget, frag) == <<frag>> \o widget

\* TextRedirector.write: insert at tk.END with the redirector's tag.
write(widget, frag) == Append(widget, frag)

\* A fragment as print() hands it to file.write; src and n identify the
\* producer (0: the main thread) and the index of the write in its program order.
Fragment(out_str, tag, src, n) == [text |-> out_str, tag |-> tag, src |-> src, n |-> n]

\* print(s) calls file.write(s) and then file.write("\n").
PrintArgs(s) == <<s, Newline>>

\* The effect of file.write on the Text widget: the original console stream
\* does not touch it.
FileWrite(widget, file, frag) ==
    IF file = "console" THEN widget ELSE write(widget, frag)

\* The model follows the program while the Text widget holds fewer than
\* MaxOutput fragments.
HasRoom(widget, file) == file = "console" \/ Len(widget) < MaxOutput

\* A faulty variant of update_ui_state: the cancel button is never enabled.
update_ui_state_cancel_off(running) ==
    IF running
    THEN [start |-> "disabled", cancel |-> "disabled"]
    ELSE [start |-> "normal", cancel |-> "disabled"]

\* A faulty variant of update_ui_state: the start widgets are never disabled.
update_ui_state_start_on(running) ==
    IF running
    THEN [start |-> "normal", cancel |-> "normal"]
    ELSE [start |-> "normal", cancel |-> "disabled"]

\* A faulty variant of update_ui_state: the cancel button is never disabled.
update_ui_state_cancel_on(running) ==
    IF running
    THEN [start |-> "disabled", cancel |-> "normal"]
    ELSE [start |-> "normal", cancel |-> "normal"]

\* update_ui_state(running)
update_ui_state(running) ==
    IF running
    THEN [start |-> "disabled", cancel |-> "normal"]
    ELSE [start |-> "normal", cancel |-> "disabled"]

\* A faulty variant of create_buttons: the cancel button is left enabled.
InitialControlsAllNormal == [start |-> "normal", cancel |-> "normal"]

\* create_buttons and the other create_* methods: all widgets normal, cancel disabled.
InitialControls == [start |-> "normal", cancel |-> "disabled"]

\* The positions of run_tagger_thread.
PreTryPrintPcs == {"print_start", "print_first1", "print_first2"}
TryPrintPcs == {"item_print", "print_done"}
PrintPcs == PreTryPrintPcs \cup TryPrintPcs \cup {"except"}
PreTryPcs == {"redirect", "check_cache", "alert"} \cup PreTryPrintPcs
BeforePreflightPcs == PreTryPcs \cup {"download", "construct", "preflight"}
TerminalPcs == {"done", "dead"}
ActivePcs == BeforePreflightPcs \cup {"poll", "finally"} \cup TryPrintPcs \cup {"except"}

\* The text each print statement of run_tagger_thread prints.
PrintText(p) ==
    CASE p = "print_start" -> StartingText
      [] p = "print_first1" -> FirstRunText1
      [] p = "print_first2" -> FirstRunText2
      [] p = "item_print" -> ItemText
      [] p = "print_done" -> DoneText
      [] p = "except" -> ErrorText

\* The statement that follows each print statement.
AfterPrint(p) ==
    CASE p = "print_start" -> "check_cache"
      [] p = "print_first1" -> "print_first2"
      [] p = "print_first2" -> "download"
      [] p = "item_print" -> "poll"
      [] p = "print_done" -> "finally"
      [] p = "except" -> "finally"

\* Where an exception raised at position p takes the thread: statements before
\* the try are not protected (the thread dies, the finally block is not run),
\* those of the try body go to the except block, and an exception of the
\* except block runs the finally block and then leaves the thread.
OnRaise(p) ==
    IF p \in PreTryPcs THEN "dead"
    ELSE IF p = "except" THEN "finally"
    ELSE "except"

\* A faulty variant of the pre-flight check: the event is not consulted.
PreflightIgnoresEvent(flag) == TRUE

\* if not self.stop_event.is_set(): the pre-flight check.
PreflightEnters(flag) == ~flag

\* A faulty variant of run_tagger's first statement: the event is left as it is.
clear_skipped(flag) == flag

\* self.entry_prefix.get() or self.DEFAULT_PREFIX: the empty string is the one
\* string that is false.
PrefixOf(text) == IF text = <<>> THEN DEFAULT_PREFIX ELSE text

\* stop_event.clear() and stop_event.set()
clear(flag) == FALSE
set(flag) == TRUE

ActiveWorkers == {j \in Jobs : pc[j] \in ActivePcs}
JobState == IF start_widgets = "disabled" THEN "RUNNING" ELSE "IDLE"

----------------------------------------------------------------------------
Init ==
    /\ stop_event = FALSE
    /\ start_widgets = InitialControls.start
    /\ cancel_button = InitialControls.cancel
    /\ sys_stdout = "console"
    /\ sys_stderr = "console"
    /\ text_output = <<>>
    /\ model_cached \in BOOLEAN
    /\ after_queue = <<>>
    /\ mainpc = "loop"
    /\ main_file = "console"
    /\ njobs = 0
    /\ pc = [j \in Jobs |-> "none"]
    /\ wpos = [j \in Jobs |-> 0]
    /\ items = [j \in Jobs |-> 0]
    /\ raised = [j \in Jobs |-> FALSE]
    /\ signals = [j \in Jobs |-> 0]
    /\ idles = [j \in Jobs |-> 0]
    /\ nemit = [j \in Jobs |-> 0]
    /\ cancelled_pre = [j \in Jobs |-> FALSE]
    /\ entered = [j \in Jobs |-> FALSE]
    /\ caught = [j \in Jobs |-> FALSE]
    /\ ncancels = 0
    /\ nui = 0
    /\ cancel_ignored = FALSE
    /\ cancel_since_start = FALSE
    /\ entry_prefix = DEFAULT_PREFIX
    /\ prefix_arg = <<>>

----------------------------------------------------------------------------
\* The main thread.

\* run_tagger: clear the event, disable the start widgets, start the thread.
run_tagger ==
    /\ mainpc = "loop"
    /\ njobs < MaxJobs
    /\ stop_event' = clear(stop_event)
    /\ start_widgets' = update_ui_state(TRUE).start
    /\ cancel_button' = update_ui_state(TRUE).cancel
    /\ njobs' = njobs + 1
    /\ pc' = [pc EXCEPT ![njobs + 1] = "redirect"]
    /\ cancel_since_start' = FALSE
    /\ cancel_ignored' = FALSE
    /\ prefix_arg' = PrefixOf(entry_prefix)
    /\ UNCHANGED <<entry_prefix, streamVars, text_output, model_cached, after_queue, mainpc,
                   main_file, wpos, items, raised, signals, idles, nemit, cancelled_pre,
                   entered, caught, ncancels, nui>>

\* cancel_tagger, first part: print resolves sys.stdout and writes the text.
cancel_tagger ==
    /\ mainpc = "loop"
    /\ ncancels < MaxCancels
    /\ HasRoom(text_output, sys_stdout)
    /\ main_file' = sys_stdout
    /\ text_output' = FileWrite(text_output, sys_stdout,
                                Fragment(PrintArgs(CancelText)[1], sys_stdout, 0, nui + 1))
    /\ nui' = nui + 1
    /\ ncancels' = ncancels + 1
    /\ mainpc' = "cancel_newline"
    /\ cancel_ignored' = FALSE
    /\ UNCHANGED <<stop_event, ctlVars, streamVars, model_cached, after_queue,
                   njobs, pc, wpos, items, raised, workerHist, idles,
                   cancelled_pre, cancel_since_start, cfgVars>>

\* cancel_tagger, print's second write.
CancelNewline ==
    /\ mainpc = "cancel_newline"
    /\ HasRoom(text_output, main_file)
    /\ text_output' = FileWrite(text_output, main_file,
                                Fragment(PrintArgs(CancelText)[2], main_file, 0, nui + 1))
    /\ nui' = nui + 1
    /\ mainpc' = "cancel_set"
    /\ UNCHANGED <<stop_event, ctlVars, streamVars, model_cached, after_queue,
                   main_file, cancel_ignored, njobs, pc, wpos, items, raised,
                   workerHist, idles, cancelled_pre, ncancels, cancel_since_start, cfgVars>>

\* cancel_tagger, last statement: self.stop_event.set().
CancelSet ==
    /\ mainpc = "cancel_set"
    /\ stop_event' = set(stop_event)
    /\ mainpc' = "loop"
    /\ cancel_since_start' = TRUE
    /\ cancelled_pre' = [j \in Jobs |->
                            cancelled_pre[j] \/ pc[j] \in BeforePreflightPcs]
    /\ UNCHANGED <<ctlVars, streamVars, text_output, model_cached, after_queue,
                   main_file, cancel_ignored, njobs, pc, wpos, items, raised,
                   workerHist, idles, ncancels, nui, cfgVars>>

\* The run button invokes its command only while it is enabled.
ClickRun ==
    /\ start_widgets = "normal"
    /\ run_tagger

\* A click on the cancel button: the button invokes its command only while it
\* is enabled, and a click on the disabled button is dropped.
ClickCancel ==
    /\ mainpc = "loop"
    /\ IF cancel_button = "normal"
       THEN cancel_tagger
       ELSE /\ cancel_ignored' = TRUE
            /\ UNCHANGED <<stop_event, ctlVars, streamVars, text_output,
                           model_cached, after_queue, mainpc, main_file, njobs,
                           pc, wpos, items, raised, workerHist, idles,
                           cancelled_pre, ncancels, nui, cancel_since_start, cfgVars>>

\* The main loop runs the oldest callback scheduled with root.after(0, ...):
\* lambda: self.update_ui_state(running=False).
AfterCallback ==
    /\ mainpc = "loop"
    /\ after_queue # <<>>
    /\ start_widgets' = update_ui_state(FALSE).start
    /\ cancel_button' = update_ui_state(FALSE).cancel
    /\ idles' = [idles EXCEPT ![Head(after_queue)] = @ + 1]
    /\ after_queue' = Tail(after_queue)
    /\ cancel_ignored' = FALSE
    /\ UNCHANGED <<stop_event, streamVars, text_output, model_cached, mainpc,
                   main_file,
                   njobs, pc, wpos, items, raised, workerHist, cancelled_pre,
                   ncancels, nui, cancel_since_start, cfgVars>>

----------------------------------------------------------------------------
\* A worker thread: run_tagger_thread.

\* sys.stdout = TextRedirector(..., "stdout"); sys.stderr = TextRedirector(..., "stderr")
Redirect(j) ==
    /\ pc[j] = "redirect"
    /\ sys_stdout' = "stdout"
    /\ sys_stderr' = "stderr"
    /\ pc' = [pc EXCEPT ![j] = "print_start"]
    /\ UNCHANGED <<stop_event, ctlVars, text_output, model_cached, after_queue,
                   mainVars, njobs, wpos, items, raised, workerHist, idles,
                   cancelled_pre, ncancels, nui, cancel_since_start, cfgVars>>

\* One write() call of the print statement the worker is at. print resolves
\* sys.stdout when it is called; once a worker has run, sys.stdout stays bound to
\* a redirector tagged "stdout", so reading it at each write gives the same file.
WorkerWrite(j) ==
    /\ pc[j] \in PrintPcs
    /\ HasRoom(text_output, sys_stdout)
    /\ text_output' = FileWrite(text_output, sys_stdout,
                           Fragment(PrintArgs(PrintText(pc[j]))[wpos[j] + 1],
                                    sys_stdout, j, nemit[j] + 1))
    /\ nemit' = [nemit EXCEPT ![j] = @ + 1]
    /\ IF wpos[j] + 1 = Len(PrintArgs(PrintText(pc[j])))
       THEN /\ pc' = [pc EXCEPT ![j] = AfterPrint(pc[j])]
            /\ wpos' = [wpos EXCEPT ![j] = 0]
       ELSE /\ pc' = pc
            /\ wpos' = [wpos EXCEPT ![j] = @ + 1]
    /\ UNCHANGED <<stop_event, ctlVars, streamVars, model_cached, after_queue,
                   mainVars, njobs, items, raised, signals, entered, caught, idles,
                   cancelled_pre, ncancels, nui, cancel_since_start, cfgVars>>

\* An exception raised at the worker's position (a write() call of print, the
\* first-run alert, hf_hub_download, the SKTagger constructor).
Raise(j) ==
    /\ pc[j] \in PrintPcs \cup {"alert", "download", "construct"}
    /\ pc' = [pc EXCEPT ![j] = OnRaise(pc[j])]
    /\ wpos' = [wpos EXCEPT ![j] = 0]
    /\ raised' = [raised EXCEPT ![j] = (pc[j] = "except")]
    /\ caught' = [caught EXCEPT ![j] = @ \/ OnRaise(pc[j]) = "except"]
    /\ UNCHANGED <<stop_event, ctlVars, streamVars, text_output, model_cached,
                   after_queue, mainVars, njobs, items, signals, nemit, entered,
                   idles, cancelled_pre, ncancels, nui, cancel_since_start, cfgVars>>

\* if not os.path.isdir(dl_dir):
CheckCache(j) ==
    /\ pc[j] = "check_cache"
    /\ pc' = [pc EXCEPT ![j] = IF model_cached THEN "download" ELSE "alert"]
    /\ UNCHANGED <<stop_event, ctlVars, streamVars, text_output, model_cached,
                   after_queue, mainVars, njobs, wpos, items, raised, workerHist,
                   idles, cancelled_pre, ncancels, nui, cancel_since_start, cfgVars>>

\* self.show_startup_alert() returns.
Alert(j) ==
    /\ pc[j] = "alert"
    /\ pc' = [pc EXCEPT ![j] = "print_first1"]
    /\ UNCHANGED <<stop_event, ctlVars, streamVars, text_output, model_cached,
                   after_queue, mainVars, njobs, wpos, items, raised, workerHist,
                   idles, cancelled_pre, ncancels, nui, cancel_since_start, cfgVars>>

\* hf_hub_download returns: the model file is in the cache.
Download(j) ==
    /\ pc[j] = "download"
    /\ model_cached' = TRUE
    /\ pc' = [pc EXCEPT ![j] = "construct"]
    /\ UNCHANGED <<stop_event, ctlVars, streamVars, text_output, after_queue,
                   mainVars, njobs, wpos, items, raised, workerHist, idles,
                   cancelled_pre, ncancels, nui, cancel_since_start, cfgVars>>

\* SKTagger(...) returns.
Construct(j) ==
    /\ pc[j] = "construct"
    /\ pc' = [pc EXCEPT ![j] = "preflight"]
    /\ UNCHANGED <<stop_event, ctlVars, streamVars, text_output, model_cached,
                   after_queue, mainVars, njobs, wpos, items, raised, workerHist,
                   idles, cancelled_pre, ncancels, nui, cancel_since_start, cfgVars>>

\* if not self.stop_event.is_set(): tagger.enter_dir(imagedir, self.stop_event)
Preflight(j) ==
    /\ pc[j] = "preflight"
    /\ IF PreflightEnters(stop_event)
       THEN /\ pc' = [pc EXCEPT ![j] = "poll"]
            /\ entered' = [entered EXCEPT ![j] = TRUE]
            /\ \E n \in 0..MaxItems : items' = [items EXCEPT ![j] = n]
       ELSE /\ pc' = [pc EXCEPT ![j] = "print_done"]
            /\ UNCHANGED <<entered, items>>
    /\ UNCHANGED <<stop_event, ctlVars, streamVars, text_output, model_cached,
                   after_queue, mainVars, njobs, wpos, raised, signals, nemit,
                   caught, idles, cancelled_pre, ncancels, nui, cancel_since_start, cfgVars>>

\* enter_dir: before each unit of work the workflow polls the event; it
\* returns when the event is set or no unit is left, and otherwise processes
\* the unit, which prints its progress or raises.
EnterDirPoll(j) ==
    /\ pc[j] = "poll"
    /\ IF stop_event \/ items[j] = 0
       THEN /\ pc' = [pc EXCEPT ![j] = "print_done"]
            /\ items' = [items EXCEPT ![j] = 0]
            /\ UNCHANGED caught
       ELSE /\ items' = [items EXCEPT ![j] = @ - 1]
            /\ \/ /\ pc' = [pc EXCEPT ![j] = "item_print"]
                  /\ UNCHANGED caught
               \/ /\ pc' = [pc EXCEPT ![j] = "except"]
                  /\ caught' = [caught EXCEPT ![j] = TRUE]
    /\ UNCHANGED <<stop_event, ctlVars, streamVars, text_output, model_cached,
                   after_queue, mainVars, njobs, wpos, raised, signals, nemit,
                   entered, idles, cancelled_pre, ncancels, nui, cancel_since_start, cfgVars>>

\* A faulty variant of the finally block: the callback is scheduled and the
\* worker then still prints a closing line.
FinallyThenPrint(j) ==
    /\ pc[j] = "finally"
    /\ after_queue' = Append(after_queue, j)
    /\ signals' = [signals EXCEPT ![j] = @ + 1]
    /\ pc' = [pc EXCEPT ![j] = IF signals[j] = 0 THEN "print_done"
                               ELSE IF raised[j] THEN "dead" ELSE "done"]
    /\ UNCHANGED <<stop_event, ctlVars, streamVars, text_output, model_cached,
                   mainVars, njobs, wpos, items, raised, nemit, entered, caught,
                   idles, cancelled_pre, ncancels, nui, cancel_since_start, cfgVars>>

\* A faulty variant of the finally block: the worker puts the original streams
\* back before it schedules the callback.
FinallyRestoresStreams(j) ==
    /\ pc[j] = "finally"
    /\ sys_stdout' = "console"
    /\ sys_stderr' = "console"
    /\ after_queue' = Append(after_queue, j)
    /\ signals' = [signals EXCEPT ![j] = @ + 1]
    /\ pc' = [pc EXCEPT ![j] = IF raised[j] THEN "dead" ELSE "done"]
    /\ UNCHANGED <<stop_event, ctlVars, text_output, model_cached,
                   mainVars, njobs, wpos, items, raised, nemit, entered, caught,
                   idles, cancelled_pre, ncancels, nui, cancel_since_start, cfgVars>>

\* finally: self.root.after(0, lambda: self.update_ui_state(running=False)),
\* after which the thread ends (with the exception in flight, if there is one).
Finally(j) ==
    /\ pc[j] = "finally"
    /\ after_queue' = Append(after_queue, j)
    /\ signals' = [signals EXCEPT ![j] = @ + 1]
    /\ pc' = [pc EXCEPT ![j] = IF raised[j] THEN "dead" ELSE "done"]
    /\ UNCHANGED <<stop_event, ctlVars, streamVars, text_output, model_cached,
                   mainVars, njobs, wpos, items, raised, nemit, entered, caught,
                   idles, cancelled_pre, ncancels, nui, cancel_since_start, cfgVars>>

Worker(j) ==
    \/ Redirect(j)
    \/ WorkerWrite(j)
    \/ Raise(j)
    \/ CheckCache(j)
    \/ Alert(j)
    \/ Download(j)
    \/ Construct(j)
    \/ Preflight(j)
    \/ EnterDirPoll(j)
    \/ Finally(j)

----------------------------------------------------------------------------
\* The program: the handlers run when their buttons are clicked.
Next ==
    \/ ClickRun
    \/ ClickCancel
    \/ CancelNewline
    \/ CancelSet
    \/ AfterCallback
    \/ \E j \in Jobs : Worker(j)

Spec == Init /\ [][Next]_vars

\* The handlers as operations: run_tagger and cancel_tagger called in any state
\* of the controls (a front-end other than the two buttons), in runs where the
\* model file is already cached and no call of the worker raises.
MaxApiCancels == 1

InitAPI ==
    /\ Init
    /\ model_cached

CallRun == run_tagger

CallCancel ==
    /\ ncancels < MaxApiCancels
    /\ cancel_tagger

WorkerNoFault(j) ==
    \/ Redirect(j)
    \/ WorkerWrite(j)
    \/ CheckCache(j)
    \/ Download(j)
    \/ Construct(j)
    \/ Preflight(j)
    \/ EnterDirPoll(j)
    \/ Finally(j)

NextAPI ==
    \/ CallRun
    \/ CallCancel
    \/ CancelNewline
    \/ CancelSet
    \/ AfterCallback
    \/ \E j \in Jobs : WorkerNoFault(j)

SpecAPI == InitAPI /\ [][NextAPI]_vars

\* The prefix entry: while the start widgets are enabled the user replaces the
\* text of self.entry_prefix (update_ui_state disables the entry with them).
EditPrefix ==
    /\ mainpc = "loop"
    /\ start_widgets = "normal"
    /\ \E text \in PrefixInputs : entry_prefix' = text
    /\ UNCHANGED <<stop_event, ctlVars, streamVars, text_output, model_cached,
                   after_queue, mainVars, njobs, pc, wpos, items, raised,
                   workerHist, idles, cancelled_pre, ncancels, nui,
                   cancel_since_start, prefix_arg>>

\* The program with a user who edits the prefix between jobs, in runs where the
\* model file is already cached, no call of the worker raises and no job is
\* cancelled.
NextPrefix ==
    \/ EditPrefix
    \/ ClickRun
    \/ AfterCallback
    \/ \E j \in Jobs : WorkerNoFault(j)

SpecPrefix == InitAPI /\ [][NextPrefix]_vars

----------------------------------------------------------------------------
\* Properties.

\* The fragments of the Text widget that worker j wrote, in widget order.
FragmentsOf(j) == SelectSeq(text_output, LAMBDA f : f.src = j)

\* Worker j wrote a fragment with the given text.
HasFragment(j, t) == \E i \in 1..Len(text_output) :
    text_output[i].src = j /\ text_output[i].text = t

\* The number of fragments worker j wrote with the given text and tag.
CountFragments(j, t, tag) == Cardinality({i \in 1..Len(text_output) :
    /\ text_output[i].src = j
    /\ text_output[i].text = t
    /\ text_output[i].tag = tag})

\* Job j's callback is scheduled and has not run yet.
IdlePending(j) == \E i \in 1..Len(after_queue) : after_queue[i] = j

\* C1: under every sequence of calls of run_tagger, at most one worker thread
\* is active at any time (a call while a worker runs dispatches no second one).
C1_AtMostOneWorker == Cardinality(ActiveWorkers) <= 1

\* C2: every worker that has ended, however it ended, has produced exactly one
\* worker-finished signal (one scheduled update_ui_state(running=False)), and
\* the controls are never set back to idle more than once for a job.
C2_OneSignalPerJob == \A j \in Jobs :
    /\ pc[j] \in TerminalPcs => signals[j] = 1
    /\ idles[j] <= 1

\* C3: a failure of any step of the worker body is captured inside the worker:
\* no worker ends with an exception leaving its thread, and every worker that
\* has ended has scheduled the idle transition.
C3_FailureCaptured == \A j \in Jobs :
    /\ pc[j] # "dead"
    /\ pc[j] = "done" => signals[j] >= 1

\* C4: a job cancelled after its start and before its pre-flight check is
\* never reported as a success: its worker does not write the success line.
C4_CancelledNotSuccess == \A j \in Jobs :
    cancelled_pre[j] => ~HasFragment(j, DoneText)

\* C5: a cancel request handled between a job's start and its pre-flight check
\* is not lost: the event is still set when the worker is at the pre-flight
\* check, and enter_dir is not invoked for that job.
C5_CancelBeforePreflightObserved == \A j \in Jobs :
    cancelled_pre[j] =>
        /\ ~entered[j]
        /\ pc[j] = "preflight" => stop_event

\* A job cancelled before its pre-flight check has passed the check without
\* entering the directory workflow.
C5_Witness == \E j \in Jobs :
    cancelled_pre[j] /\ pc[j] = "print_done" /\ ~entered[j]

\* C6: the Text widget holds the fragments each worker wrote exactly once each
\* and in the order the worker wrote them, however the main thread's own
\* fragments are interleaved with them.
C6_FragmentOrder == \A j \in Jobs :
    /\ Len(FragmentsOf(j)) = nemit[j]
    /\ \A i \in 1..Len(FragmentsOf(j)) : FragmentsOf(j)[i].n = i

\* A fragment of the main thread lies between two fragments of one worker.
C6_Witness == \E j \in Jobs : \E i, k, l \in 1..Len(text_output) :
    /\ i < k /\ k < l
    /\ text_output[i].src = j
    /\ text_output[k].src = 0
    /\ text_output[l].src = j
    /\ nemit[j] >= 4

\* C7: once the idle transition of a job is scheduled or has run, its worker
\* has ended and every fragment it wrote is in the Text widget: the transition
\* is observed after all of the job's fragments.
C7_IdleAfterFragments == \A j \in Jobs :
    (idles[j] >= 1 \/ IdlePending(j)) =>
        /\ pc[j] \in TerminalPcs
        /\ wpos[j] = 0
        /\ Len(FragmentsOf(j)) = nemit[j]

\* The idle transition of a job that wrote fragments has run.
C7_Witness == \E j \in Jobs :
    idles[j] = 1 /\ nemit[j] >= 4 /\ start_widgets = "normal"

\* C8: a job whose workflow or provisioning raised has exactly one fragment
\* with the failure text, tagged as error output, and no success fragment.
C8_FailureIsErrorFragment == \A j \in Jobs :
    (caught[j] /\ pc[j] = "done") =>
        /\ CountFragments(j, ErrorText, "stderr") = 1
        /\ CountFragments(j, ErrorText, "stdout") = 0
        /\ ~HasFragment(j, DoneText)

\* C9: the event is cleared at every start: while no cancel request has been
\* handled since the latest start, the event is clear, whatever cancel
\* requests were handled before that start.
C9_TokenClearAtStart ==
    (njobs >= 1 /\ ~cancel_since_start) => ~stop_event

\* A second job has just been dispatched after a cancel request of the first.
C9_Witness ==
    /\ njobs = 2
    /\ pc[2] = "redirect"
    /\ ncancels >= 1
    /\ mainpc = "loop"
    /\ ~cancel_since_start
    /\ ~stop_event

\* C10: a cancel request handled while the controls are idle is ignored: it
\* changes neither the controls nor the event, writes nothing to the Text
\* widget, schedules no idle transition and starts no handler.
C10_IdleCancelIgnored ==
    [][(JobState = "IDLE" /\ ClickCancel) =>
          UNCHANGED <<stop_event, ctlVars, streamVars, text_output, after_queue,
                      mainpc, njobs, pc, signals, idles>>]_vars

\* A cancel click was dropped between two jobs, when sys.stdout is already
\* bound to the Text widget.
C10_Witness ==
    /\ cancel_ignored
    /\ JobState = "IDLE"
    /\ sys_stdout = "stdout"
    /\ njobs >= 1

\* The number of fragments with the cancel text in the Text widget.
CancelFragments == Cardinality({i \in 1..Len(text_output) :
    text_output[i].src = 0 /\ text_output[i].text = CancelText})

\* C11: every cancel request handled while a job is running has set the event
\* and has put its "Cancelling tagger..." fragment into the Text widget, at
\* whatever point of the worker's execution it was handled; the controls stay
\* as they were.
C11_CancelFragmentDelivered ==
    (mainpc = "loop" /\ JobState = "RUNNING") =>
        /\ CancelFragments = ncancels
        /\ cancel_since_start => stop_event

\* C12: after one or more cancel requests during a job the event is set, and
\* the job, once its worker has ended, has produced exactly one worker-finished
\* signal and at most one transition to idle.
C12_CancelIdempotent ==
    (njobs >= 1 /\ cancel_since_start) =>
        /\ stop_event
        /\ pc[njobs] \in TerminalPcs => signals[njobs] = 1
        /\ idles[njobs] <= 1

\* C13: no step of a worker thread changes the Text widget or the state of a
\* control; only steps of the main thread do.
C13_WorkerTouchesNoWidget ==
    [][(\E j \in Jobs : Worker(j)) => UNCHANGED <<text_output, ctlVars>>]_vars

IsBlank(text) == \A i \in 1..Len(text) : text[i] = " "

\* C15: the prefix run_tagger passes to the thread is "st" when the text of the
\* prefix entry is empty or holds only whitespace, and the text itself otherwise
\* (so it is never empty and never blank).
C15_PrefixNeverBlank ==
    [][njobs' = njobs + 1 =>
          prefix_arg' = IF IsBlank(entry_prefix) THEN DEFAULT_PREFIX
                        ELSE entry_prefix]_vars

\* C16: while a worker is active no step clears the event: once it is set
\* during a job it is still set after every step taken while that job's worker
\* has not finished.
C16_TokenNotClearedWhileActive ==
    [][(ActiveWorkers # {} /\ stop_event) => stop_event']_vars

\* The second job's worker has entered enter_dir, was cancelled there and has
\* left it with the event still set.
C16_Witness ==
    /\ njobs = 2
    /\ pc[2] = "print_done"
    /\ entered[2]
    /\ cancel_since_start
    /\ stop_event

\* C17: in every state in which a worker is active or its callback is still
\* scheduled the start widgets are disabled; so run_tagger is not invoked during
\* a job, at most one worker is active, and the callback of a job never runs
\* while the worker of a later job is active.
C17_StartDisabledWhileBusy ==
    /\ (ActiveWorkers # {} \/ after_queue # <<>>) => start_widgets = "disabled"
    /\ Cardinality(ActiveWorkers) <= 1
    /\ \A j \in Jobs : \A k \in ActiveWorkers : IdlePending(j) => k <= j

\* The callback of the first job has run and the worker of the second job is
\* active.
C17_Witness ==
    /\ idles[1] = 1
    /\ after_queue = <<>>
    /\ 2 \in ActiveWorkers
    /\ start_widgets = "disabled"

\* C18: in every state, from construction on, the cancel button is enabled
\* exactly when the start widgets are disabled.
C18_ControlsComplementary ==
    (cancel_button = "normal") <=> (start_widgets = "disabled")

\* Both settings of the controls have been taken after construction: a job has
\* run with the cancel button enabled, a cancel request was handled, and its
\* callback has put the controls back.
C18_Witness ==
    /\ idles[1] = 1
    /\ ncancels >= 1
    /\ cancel_button = "disabled"
    /\ start_widgets = "normal"

\* C19: once a worker has executed its first statements, sys.stdout and
\* sys.stderr are bound to the redirectors in every later state, and no step
\* binds either of them to anything else again.
C19_RedirectionOneWay ==
    /\ []((\E j \in Jobs : pc[j] \notin {"none", "redirect"})
            => (sys_stdout = "stdout" /\ sys_stderr = "stderr"))
    /\ [][/\ sys_stdout = "stdout" => sys_stdout' = "stdout"
          /\ sys_stderr = "stderr" => sys_stderr' = "stderr"]_vars

\* The first job is over, its callback has run, and the second job has been
\* started: the streams are still bound to the Text widget.
C19_Witness ==
    /\ idles[1] = 1
    /\ njobs = 2
    /\ pc[2] = "redirect"
    /\ sys_stdout = "stdout"
    /\ sys_stderr = "stderr"

====
